---- MODULE Spec2Model ----
(***************************************************************************)
(* The package installation engine of Termux-All-Tools.                    *)
(*                                                                         *)
(*   python_packages.py : parallel_install / install_package, the pip      *)
(*                        installer with a thread pool and a retry loop.   *)
(*   Termux-Toolkit.py  : install_packages, the sequential pkg installer.  *)
(*                                                                         *)
(* Strings whose content the code inspects (version strings, version       *)
(* constraints) are sequences of one-character strings.                    *)
(***************************************************************************)
EXTENDS Integers, Sequences, FiniteSets, TLC

\* ------------------------------------------------------------ constants

MAX_WORKERS == 3

NETWORK_RETRIES == 2

NETWORK_TIMEOUT == 30

\* Number of packages of a batch request (more than MAX_WORKERS).
NumPkgs == 4

\* --------------------------------------------------- strings and versions

Digits == {"0", "1", "2", "3", "4", "5", "6", "7", "8", "9"}

DigitValue(c) ==
    CASE c = "0" -> 0 [] c = "1" -> 1 [] c = "2" -> 2 [] c = "3" -> 3
      [] c = "4" -> 4 [] c = "5" -> 5 [] c = "6" -> 6 [] c = "7" -> 7
      [] c = "8" -> 8 [] c = "9" -> 9

\* str.lstrip(chars): drop every leading character that is in chars.
RECURSIVE lstrip(_, _)
lstrip(s, chars) ==
    IF s # <<>> /\ Head(s) \in chars THEN lstrip(Tail(s), chars) ELSE s

\* packaging.version.parse on a one-segment release. It raises InvalidVersion
\* for the empty string and for anything that is not a number: is_version
\* tells whether it returns, version_parse what it returns then.
RECURSIVE NumberOf(_, _)
NumberOf(s, acc) ==
    IF s = <<>> THEN acc ELSE NumberOf(Tail(s), 10 * acc + DigitValue(Head(s)))

is_version(s) == s # <<>> /\ \A i \in 1..Len(s) : s[i] \in Digits

version_parse(s) == NumberOf(s, 0)

\* ------------------------------------------------------------ input sets

\* Constraint strings as main() and the config file produce them.
SpecAny == <<>>
SpecGe1 == <<">", "=", "1">>
SpecGe2 == <<">", "=", "2">>
SpecGeBad == <<">", "=", "x">>

AllSpecs == {SpecAny, SpecGe1, SpecGe2, SpecGeBad}

\* What get_installed_version can return, as an optional: <<>> is None (not
\* installed), <<v>> is the text of the Version: line.
NotInstalled == <<>>

AllInstalled == {NotInstalled, << <<"1">> >>, << <<"2">> >>, << <<"x">> >>}

\* A batch draws from a smaller set so that NumPkgs packages stay checkable.
BatchSpecs == {SpecGe2}

BatchInstalled == {NotInstalled, << <<"2">> >>, << <<"x">> >>}

\* ------------------------------------------------------------------ state

VARIABLES
    prog,           \* "pip": python_packages.py, "pkg": Termux-Toolkit.py
    scenario,       \* which call of the program this behaviour is
    names,          \* the keys of the dict given to parallel_install:
                    \* names[i] is the i-th package name
    custom_packages,\* main: the comma-separated entries the user typed
    config,         \* main: the packages dict, as a function from names
                    \* to constraints
    edited,         \* main: entries of custom_packages processed so far
    removing,       \* the list given to uninstall_packages
    uninstalled,    \* uninstall_packages: the `pip uninstall` subprocesses
                    \* run, in order, as <<package, exit>>
    unpc,           \* uninstall_packages: "idle", "loop", "returned"
    uninstall_failed,\* uninstall_packages: its failed list
    run,            \* 1: first run of the engine, 2: the run repeated
    failed,         \* the failed list of parallel_install / install_packages
    packages,       \* the dict given to parallel_install: packages[i] is the
                    \* constraint of the i-th key (dict order = request order)
    queue,          \* the pool's work queue (submitted, not yet started)
    pc,             \* per package: where its install_package call is
    installed,      \* per package: what get_installed_version returned
    attempt,        \* per package: the loop variable of the retry loop
    calls,          \* per package: install subprocesses started
    delays,         \* per package: the time.sleep arguments, in order
    results,        \* per package: how its install subprocesses ended, in
                    \* order (delays and results are logged in
                    \* single-package runs only)
    final,          \* per package: how the install subprocess ended that
                    \* made the job return
    future,         \* per package: the Future of its job
    overtaken,      \* <<>>, or <<B, A>>: failing B, requested after failing
                    \* A, was seen to finish before A did
    mainpc,         \* the thread that called parallel_install
    completed,      \* parallel_install's progress counter
    reported,       \* the packages of the status lines printed, in order
    notifications,  \* send_notification calls made by parallel_install
    cancelled,      \* <<>>, or <<q>>: the calling thread was interrupted
                    \* when the pool's work queue was q
    requested,      \* the list given to install_packages (Termux-Toolkit)
    dependencies,   \* install_packages: what resolve_dependencies returned
    all_packages,   \* install_packages: list(set(packages + dependencies))
    tkpc,           \* install_packages: "resolve", "loop", "returned"
    success,        \* install_packages: the success list
    outcome,        \* per name: what its iteration of the loop did
    pkgcalls        \* per name: `pkg install` subprocesses run

\* main's editing of the package list (lines 224-233).
editVars == <<custom_packages, config, edited>>

\* uninstall_packages (lines 189-206).
removeVars == <<removing, uninstalled, unpc, uninstall_failed>>

\* What the program was called with, and its work outside the installers:
\* unchanged by the installers.
callVars == <<prog, scenario, names, editVars, removeVars>>

jobVars == <<pc, installed, attempt, calls, delays, results, final, future,
             overtaken>>

mainVars == <<mainpc, completed, reported, notifications, cancelled>>

tkVars == <<requested, dependencies, all_packages, tkpc, success, outcome,
            pkgcalls>>

vars == <<callVars, run, failed, packages, queue, jobVars, mainVars, tkVars>>

Pkgs == 1..Len(packages)

Range(f) == {f[i] : i \in DOMAIN f}

\* A Future: not done, done with the tuple install_package returned, done
\* with None (install_package fell off its loop), or done with an exception.
Pending == [state |-> "pending", package |-> 0, success |-> FALSE, message |-> ""]

Result(p, ok, msg) ==
    [state |-> "result", package |-> p, success |-> ok, message |-> msg]

ReturnedNone == [state |-> "none", package |-> 0, success |-> FALSE, message |-> ""]

Exception ==
    [state |-> "exception", package |-> 0, success |-> FALSE,
     message |-> "InvalidVersion"]

\* How an install subprocess can end: exit 0; a nonzero exit whose stderr
\* shows a transient network error; any other nonzero exit; no exit within
\* NETWORK_TIMEOUT*2 seconds.
ExecutorResults == {"ok", "transient", "terminal", "timeout"}

\* subprocess.run(check=True) raises CalledProcessError on every nonzero exit.
CalledProcessError(r) == r \in {"transient", "terminal"}

\* The last line of stderr of the k-th install subprocess of a package.
Stderr(k) == CASE k = 1 -> "stderr1" [] k = 2 -> "stderr2" [] OTHER -> "stderr3"

\* ------------------------------------------------- install_package, pure

\* Lines 117-121: the outcome of the version check for the oracle's answer
\* cv and the constraint spec. Python evaluates `current_version and ...`
\* left to right: None short-circuits, then both version.parse calls run and
\* either may raise InvalidVersion, which nothing in install_package catches.
VersionCheck(cv, spec) ==
    IF cv = NotInstalled THEN "install"
    ELSE LET want == lstrip(spec, {">", "="})
         IN  IF ~is_version(cv[1]) \/ ~is_version(want) THEN "raise"
             ELSE IF version_parse(cv[1]) >= version_parse(want) THEN "already"
             ELSE "install"

\* A retry loop that does not advance its counter.
NextAttempt_stuck(a) == a

\* Line 123: `for attempt in range(NETWORK_RETRIES + 1)`: the value of
\* attempt in the iteration after a, and whether there is such an iteration.
NextAttempt(a) == a + 1

LoopContinues(a) == NextAttempt(a) < NETWORK_RETRIES + 1

\* Except clauses that sleep the same time after a timeout as after a
\* nonzero exit.
AfterFailure_same_base(a, r, k) ==
    IF a = NETWORK_RETRIES
    THEN [return |-> TRUE,
          message |-> IF CalledProcessError(r) THEN Stderr(k) ELSE "Timeout",
          delay |-> 0]
    ELSE [return |-> FALSE, message |-> "", delay |-> 5 * (a + 1)]

\* Except clauses that report the stderr of the first install subprocess.
AfterFailure_first_error(a, r, k) ==
    IF CalledProcessError(r)
    THEN IF a = NETWORK_RETRIES
         THEN [return |-> TRUE, message |-> Stderr(1), delay |-> 0]
         ELSE [return |-> FALSE, message |-> "", delay |-> 5 * (a + 1)]
    ELSE IF a = NETWORK_RETRIES
         THEN [return |-> TRUE, message |-> "Timeout", delay |-> 0]
         ELSE [return |-> FALSE, message |-> "", delay |-> 10 * (a + 1)]

\* Except clauses without the return at the last attempt.
AfterFailure_sleep_at_last(a, r, k) ==
    [return |-> FALSE, message |-> "",
     delay |-> (IF CalledProcessError(r) THEN 5 ELSE 10) * (a + 1)]

\* Lines 143-156: what the except clauses do after the install subprocess of
\* iteration a, the k-th of the package, ended as r (not "ok").
AfterFailure(a, r, k) ==
    IF CalledProcessError(r)
    THEN IF a = NETWORK_RETRIES
         THEN [return |-> TRUE, message |-> Stderr(k), delay |-> 0]
         ELSE [return |-> FALSE, message |-> "", delay |-> 5 * (a + 1)]
    ELSE IF a = NETWORK_RETRIES
         THEN [return |-> TRUE, message |-> "Timeout", delay |-> 0]
         ELSE [return |-> FALSE, message |-> "", delay |-> 10 * (a + 1)]

\* ------------------------------------------------------------- the pool

Running ==
    {p \in Pkgs : pc[p] \in {"checking", "installing", "sleeping", "blocked"}}

\* A pool that starts a thread per job.
WorkerAvailable_unbounded == TRUE

\* A pool that stops taking jobs once a job has failed.
WorkerAvailable_until_failure ==
    /\ Cardinality(Running) < MAX_WORKERS
    /\ \A p \in Pkgs : future[p].state = "result" => future[p].success

\* Line 160: ThreadPoolExecutor(max_workers=MAX_WORKERS) has a free thread.
WorkerAvailable == Cardinality(Running) < MAX_WORKERS

\* A submission loop that submits the first package again instead of the last.
Submitted_twice(pkgs) ==
    [i \in 1..Len(pkgs) |-> IF i = Len(pkgs) /\ i > 1 THEN 1 ELSE i]

\* Lines 161-163: the futures list; every package of the dict is submitted
\* once, in dict order.
Submitted(pkgs) == [i \in 1..Len(pkgs) |-> i]

\* The installed versions that satisfy a request with constraint spec.
Satisfying(spec) ==
    {cv \in AllInstalled \ {NotInstalled} :
        /\ is_version(cv[1])
        /\ \/ spec = SpecAny
           \/ LET want == lstrip(spec, {">", "="})
              IN  /\ is_version(want)
                  /\ version_parse(cv[1]) >= version_parse(want)}

\* install_package is exercised on its own: delays and results are logged.
Traced == scenario = "single"

\* Line 181: a progress notification is sent every NotifyEvery packages.
NotifyEvery == 5

\* What the version oracle may answer for package p in this run. In the
\* batch that is long enough to notify, only the first package is missing.
OracleAnswers(p) ==
    IF run = 2 THEN Satisfying(packages[p])
    ELSE IF Traced THEN AllInstalled
    ELSE IF scenario = "long"
         THEN (IF p = 1 THEN {NotInstalled} ELSE {<< <<"2">> >>})
    ELSE BatchInstalled

InitPip(pkgs, m) ==
    /\ packages = pkgs
    /\ queue = Submitted(pkgs)
    /\ pc = [p \in 1..Len(pkgs) |-> "queued"]
    /\ installed = [p \in 1..Len(pkgs) |-> NotInstalled]
    /\ attempt = [p \in 1..Len(pkgs) |-> 0]
    /\ calls = [p \in 1..Len(pkgs) |-> 0]
    /\ delays = [p \in 1..Len(pkgs) |-> <<>>]
    /\ results = [p \in 1..Len(pkgs) |-> <<>>]
    /\ final = [p \in 1..Len(pkgs) |-> "none"]
    /\ future = [p \in 1..Len(pkgs) |-> Pending]
    /\ overtaken = <<>>
    /\ mainpc = m
    /\ completed = 0
    /\ reported = <<>>
    /\ notifications = 0
    /\ cancelled = <<>>

\* ------------------------------------------------------ Termux-Toolkit

\* Package names: sequences of characters.
NameChars == {"a", "b", "c", "-", "+", "."}

Names == {<<"a">>, <<"b">>, <<"c">>, <<"a", ";">>}

\* Longest list given to install_packages.
MaxRequest == 2

\* validate_package: the charset rule for package names.
validate_package(name) ==
    name # <<>> /\ \A i \in 1..Len(name) : name[i] \in NameChars

\* What resolve_dependencies may return for a request: one level of declared
\* dependencies, as a list of names.
resolve_dependencies(pkgs) == {<<>>} \cup {<<n>> : n \in Names}

\* list(set(xs)): the distinct elements of xs, in any order.
ListOfSet(xs) ==
    {l \in [1..Cardinality(Range(xs)) -> Range(xs)] : Range(l) = Range(xs)}

InitToolkit(req, t) ==
    /\ requested = req
    /\ dependencies = <<>>
    /\ all_packages = <<>>
    /\ tkpc = t
    /\ success = <<>>
    /\ outcome = [n \in Names |-> "none"]
    /\ pkgcalls = [n \in Names |-> 0]

\* ------------------------------------------- main: editing the package list

RECURSIVE rstrip(_, _)
rstrip(s, chars) ==
    IF s # <<>> /\ s[Len(s)] \in chars
    THEN rstrip(SubSeq(s, 1, Len(s) - 1), chars) ELSE s

\* str.strip(), for the blank as the only whitespace.
strip(s) == rstrip(lstrip(s, {" "}), {" "})

\* Where '>=' starts in s.
FindGe(s) == {i \in 1..(Len(s) - 1) : s[i] = ">" /\ s[i + 1] = "="}

\* pkg_spec.split('>='), for an entry with one '>='.
split(s) ==
    LET i == CHOOSE i \in FindGe(s) : \A j \in FindGe(s) : i <= j
    IN  <<SubSeq(s, 1, i - 1), SubSeq(s, i + 2, Len(s))>>

\* An edit that keeps a constraint once a name has one.
EditEntry_constrained_wins(dict, pkg_spec) ==
    LET package == IF FindGe(pkg_spec) # {} THEN strip(split(pkg_spec)[1])
                   ELSE strip(pkg_spec)
        spec == IF FindGe(pkg_spec) # {}
                THEN <<">", "=">> \o strip(split(pkg_spec)[2])
                ELSE IF package \in DOMAIN dict THEN dict[package]
                ELSE <<>>
    IN  [n \in DOMAIN dict \cup {package} |->
            IF n = package THEN spec ELSE dict[n]]

\* Lines 227-232: one entry of the edit is assigned to the dict.
EditEntry(dict, pkg_spec) ==
    LET package == IF FindGe(pkg_spec) # {} THEN strip(split(pkg_spec)[1])
                   ELSE strip(pkg_spec)
        spec == IF FindGe(pkg_spec) # {}
                THEN <<">", "=">> \o strip(split(pkg_spec)[2])
                ELSE <<>>
    IN  [n \in DOMAIN dict \cup {package} |->
            IF n = package THEN spec ELSE dict[n]]

\* The entries a user types.
EditEntries ==
    {<<"a">>, <<" ", "a">>, <<"a", ">", "=", "1">>, <<"b", ">", "=", "2">>}

\* Most entries typed in one edit.
MaxEdit == 2

\* What load_config returns: no package, or one with a constraint.
LoadedConfigs == {<<>>, [n \in {<<"a">>} |-> SpecGe2]}

InitEdit(typed, loaded) ==
    /\ custom_packages = typed
    /\ config = loaded
    /\ edited = 0

\* One iteration of the loop over custom_packages (lines 226-232).
Edit ==
    /\ scenario = "edit"
    /\ edited < Len(custom_packages)
    /\ config' = EditEntry(config, custom_packages[edited + 1])
    /\ edited' = edited + 1
    /\ UNCHANGED <<prog, scenario, names, custom_packages, removeVars, run,
                   failed, packages, queue, jobVars, mainVars, tkVars>>

\* ------------------------------------------------- uninstall_packages

\* The names uninstall_packages is called with.
RemoveNames == {<<"a">>, <<"b">>}

\* Longest list given to uninstall_packages.
MaxRemove == 3

InitRemove(pkgs, u) ==
    /\ removing = pkgs
    /\ uninstalled = <<>>
    /\ unpc = u
    /\ uninstall_failed = <<>>

\* An uninstall loop that gives up at the first failure.
Uninstall_stop_at_failure(exit) ==
    /\ unpc = "loop"
    /\ Len(uninstalled) < Len(removing)
    /\ LET package == removing[Len(uninstalled) + 1]
       IN  /\ uninstalled' = Append(uninstalled, <<package, exit>>)
           /\ uninstall_failed' = IF exit = "error"
                                  THEN Append(uninstall_failed, package)
                                  ELSE uninstall_failed
           /\ unpc' = IF exit = "error" THEN "returned" ELSE unpc
    /\ UNCHANGED <<prog, scenario, names, editVars, removing, run, failed,
                   packages, queue, jobVars, mainVars, tkVars>>

\* One iteration of the loop (lines 192-205): `pip uninstall -y` is run for
\* the next package of the list and exits with exit ("ok", or "error" for
\* CalledProcessError, which is caught and recorded).
Uninstall(exit) ==
    /\ unpc = "loop"
    /\ Len(uninstalled) < Len(removing)
    /\ LET package == removing[Len(uninstalled) + 1]
       IN  /\ uninstalled' = Append(uninstalled, <<package, exit>>)
           /\ uninstall_failed' = IF exit = "error"
                                  THEN Append(uninstall_failed, package)
                                  ELSE uninstall_failed
    /\ UNCHANGED <<prog, scenario, names, editVars, removing, unpc, run,
                   failed, packages, queue, jobVars, mainVars, tkVars>>

\* Line 206: the loop is over, failed is returned.
UninstallReturn ==
    /\ unpc = "loop"
    /\ Len(uninstalled) = Len(removing)
    /\ unpc' = "returned"
    /\ UNCHANGED <<prog, scenario, names, editVars, removing, uninstalled,
                   uninstall_failed, run, failed, packages, queue, jobVars,
                   mainVars, tkVars>>

\* The names a single package is drawn from: one inside and one outside the
\* charset of package names.
PipNames == {<<"a">>, <<"a", ";">>}

\* The p-th key of a dict of many packages: distinct names of the charset.
Key(p) == [i \in 1..p |-> "a"]

\* Either parallel_install has been called and has submitted its jobs (with
\* one package drawn from every constraint, with NumPkgs packages, or with
\* as many packages as it takes to notify), or main is about to apply the
\* user's edit to the loaded dict, or uninstall_packages has been called
\* with a list of names, or install_packages has been called with a list of
\* names.
Init ==
    /\ run = 1
    /\ failed = <<>>
    /\ \/ /\ prog = "pip"
          /\ scenario = "single"
          /\ \E pkgs \in [1..1 -> AllSpecs] : InitPip(pkgs, "collecting")
          /\ names \in [1..1 -> PipNames]
          /\ InitToolkit(<<>>, "idle")
          /\ InitEdit(<<>>, <<>>)
          /\ InitRemove(<<>>, "idle")
       \/ /\ prog = "pip"
          /\ scenario = "batch"
          /\ \E pkgs \in [1..NumPkgs -> BatchSpecs] :
                InitPip(pkgs, "collecting")
          /\ names = [p \in 1..NumPkgs |-> Key(p)]
          /\ InitToolkit(<<>>, "idle")
          /\ InitEdit(<<>>, <<>>)
          /\ InitRemove(<<>>, "idle")
       \/ /\ prog = "pip"
          /\ scenario = "long"
          /\ InitPip([p \in 1..NotifyEvery |-> SpecGe2], "collecting")
          /\ names = [p \in 1..NotifyEvery |-> Key(p)]
          /\ InitToolkit(<<>>, "idle")
          /\ InitEdit(<<>>, <<>>)
          /\ InitRemove(<<>>, "idle")
       \/ /\ prog = "pip"
          /\ scenario = "edit"
          /\ \E k \in 1..MaxEdit : \E typed \in [1..k -> EditEntries] :
                \E loaded \in LoadedConfigs : InitEdit(typed, loaded)
          /\ names = <<>>
          /\ InitPip(<<>>, "idle")
          /\ InitToolkit(<<>>, "idle")
          /\ InitRemove(<<>>, "idle")
       \/ /\ prog = "pip"
          /\ scenario = "uninstall"
          /\ \E k \in 1..MaxRemove : \E pkgs \in [1..k -> RemoveNames] :
                InitRemove(pkgs, "loop")
          /\ names = <<>>
          /\ InitPip(<<>>, "idle")
          /\ InitToolkit(<<>>, "idle")
          /\ InitEdit(<<>>, <<>>)
       \/ /\ prog = "pkg"
          /\ scenario = "toolkit"
          /\ \E k \in 1..MaxRequest : \E req \in [1..k -> Names] :
                InitToolkit(req, "resolve")
          /\ names = <<>>
          /\ InitPip(<<>>, "idle")
          /\ InitEdit(<<>>, <<>>)
          /\ InitRemove(<<>>, "idle")

\* ------------------------------------------------------------ the workers

\* A pool thread takes the next job off the queue and enters install_package:
\* get_installed_version's `pip show` is started (lines 117, 102-107).
StartJob(p) ==
    /\ queue # <<>>
    /\ p = Head(queue)
    /\ WorkerAvailable
    /\ queue' = Tail(queue)
    /\ pc' = [pc EXCEPT ![p] = "checking"]
    /\ UNCHANGED <<callVars, run, failed, packages, mainVars, tkVars, installed,
                   attempt, calls, delays, results, final, future, overtaken>>

\* get_installed_version returns cv; lines 119-132: the job returns "Already
\* installed", dies of InvalidVersion, or starts its first install subprocess.
VersionChecked(p, cv) ==
    /\ pc[p] = "checking"
    /\ cv \in OracleAnswers(p)
    /\ installed' = [installed EXCEPT ![p] = cv]
    /\ LET check == VersionCheck(cv, packages[p])
       IN  CASE check = "already" ->
                   /\ future' = [future EXCEPT
                                    ![p] = Result(p, TRUE, "Already installed")]
                   /\ pc' = [pc EXCEPT ![p] = "done"]
                   /\ UNCHANGED <<attempt, calls>>
             [] check = "raise" ->
                   /\ future' = [future EXCEPT ![p] = Exception]
                   /\ pc' = [pc EXCEPT ![p] = "done"]
                   /\ UNCHANGED <<attempt, calls>>
             [] OTHER ->
                   /\ attempt' = [attempt EXCEPT ![p] = 0]
                   /\ calls' = [calls EXCEPT ![p] = 1]
                   /\ pc' = [pc EXCEPT ![p] = "installing"]
                   /\ UNCHANGED future
    /\ UNCHANGED <<callVars, run, failed, packages, queue, mainVars, tkVars,
                   delays, results, final, overtaken>>

\* The timeout argument of each subprocess.run of python_packages.py, as an
\* optional: <<>> where the call passes none (lines 66, 102, 132, 77).
CallTimeout(call) ==
    CASE call = "termux-notification --help" -> <<>>
      [] call = "pip show" -> <<>>
      [] call = "pip install" -> <<NETWORK_TIMEOUT * 2>>
      [] call = "termux-notification" -> <<5>>

\* The `pip show` subprocess of p never exits: subprocess.run, called
\* without a timeout, never returns and the pool thread stays in it.
PipShowHangs(p) ==
    /\ Traced
    /\ pc[p] = "checking"
    /\ CallTimeout("pip show") = <<>>
    /\ pc' = [pc EXCEPT ![p] = "blocked"]
    /\ UNCHANGED <<callVars, run, failed, packages, queue, mainVars, tkVars,
                   installed, attempt, calls, delays, results, final, future,
                   overtaken>>

\* How an install subprocess may end in this run. The code treats every
\* nonzero exit alike, so that a batch of many packages has one kind of it.
ExecutorAnswers ==
    IF Traced THEN ExecutorResults ELSE ExecutorResults \ {"transient"}

\* A failing job p finishes: remember the first later-requested failing job
\* that had finished before it.
Overtaking(p) ==
    LET before == {q \in Pkgs : /\ q > p
                                /\ future[q].state = "result"
                                /\ ~future[q].success}
    IN  IF overtaken = <<>> /\ before # {}
        THEN <<CHOOSE q \in before : \A r \in before : q <= r, p>>
        ELSE overtaken

\* The install subprocess of p ends as r (lines 132-156): the job returns
\* "Success", returns the failure, or sleeps before the next attempt.
InstallReturns(p, r) ==
    /\ pc[p] = "installing"
    /\ r \in ExecutorAnswers
    /\ results' = IF Traced THEN [results EXCEPT ![p] = Append(@, r)]
                  ELSE results
    /\ IF r = "ok"
       THEN /\ future' = [future EXCEPT ![p] = Result(p, TRUE, "Success")]
            /\ final' = [final EXCEPT ![p] = r]
            /\ pc' = [pc EXCEPT ![p] = "done"]
            /\ UNCHANGED <<delays, overtaken>>
       ELSE LET after == AfterFailure(attempt[p], r, calls[p])
            IN  IF after.return
                THEN /\ future' = [future EXCEPT
                                     ![p] = Result(p, FALSE, after.message)]
                     /\ final' = [final EXCEPT ![p] = r]
                     /\ pc' = [pc EXCEPT ![p] = "done"]
                     /\ overtaken' = Overtaking(p)
                     /\ UNCHANGED delays
                ELSE /\ delays' = IF Traced
                                  THEN [delays EXCEPT
                                          ![p] = Append(@, after.delay)]
                                  ELSE delays
                     /\ pc' = [pc EXCEPT ![p] = "sleeping"]
                     /\ UNCHANGED <<future, final, overtaken>>
    /\ UNCHANGED <<callVars, run, failed, packages, queue, mainVars, tkVars,
                   installed, attempt, calls>>

\* time.sleep returns: the next iteration of the loop starts its subprocess
\* (lines 123-132), or the loop is over and install_package returns None.
BackoffDone(p) ==
    /\ pc[p] = "sleeping"
    /\ IF LoopContinues(attempt[p])
       THEN /\ attempt' = [attempt EXCEPT ![p] = NextAttempt(@)]
            /\ calls' = [calls EXCEPT ![p] = @ + 1]
            /\ pc' = [pc EXCEPT ![p] = "installing"]
            /\ UNCHANGED future
       ELSE /\ future' = [future EXCEPT ![p] = ReturnedNone]
            /\ pc' = [pc EXCEPT ![p] = "done"]
            /\ UNCHANGED <<attempt, calls>>
    /\ UNCHANGED <<callVars, run, failed, packages, queue, mainVars, tkVars,
                   installed, delays, results, final, overtaken>>

\* ---------------------------------------------------- the calling thread

\* Line 181: the cadence of the progress notification.
NotifyDue(n) == n % NotifyEvery = 0

\* What the environment does to one send_notification call: the tool is
\* missing (the --help probe cannot be started), the probe never exits, or
\* the probe returns and the notification command then is sent, exits
\* nonzero, outlives its timeout, or cannot be started (OSError). "none"
\* stands for an iteration that does not notify.
NotifyOutcomes == {"missing", "hang", "sent", "nonzero", "timeout", "oserror"}

\* send_notification (lines 74-85) under outcome o: it returns, raises, or
\* never returns. check_termux_api (lines 63-72) turns every exception of
\* its probe into False and gives the probe no timeout; the notification
\* command has a timeout, its exit status is not looked at, and only
\* TimeoutExpired is caught.
send_notification(o) ==
    CASE o = "missing" -> "returns"
      [] o = "hang" ->
            IF CallTimeout("termux-notification --help") = <<>>
            THEN "blocks" ELSE "returns"
      [] o \in {"sent", "nonzero"} -> "returns"
      [] o = "timeout" ->
            IF CallTimeout("termux-notification") = <<>>
            THEN "blocks" ELSE "returns"
      [] o = "oserror" -> "raises"

\* Where the calling thread is after an iteration that ended with the
\* notification call n ("none" when the iteration made no such call).
AfterIteration(n, last) ==
    CASE n = "blocks" -> "blocked"
      [] n = "raises" -> "unwinding"
      [] OTHER -> IF last THEN "returned" ELSE "collecting"

\* A collection loop over the futures as they complete (as_completed)
\* instead of over the futures list.
Collect_as_completed(o) ==
    /\ mainpc = "collecting"
    /\ \E p \in Pkgs \ Range(reported) :
          LET f == future[p]
          IN  /\ f.state = "result"
              /\ (o = "none") <=> ~NotifyDue(completed + 1)
              /\ completed' = completed + 1
              /\ reported' = Append(reported, f.package)
              /\ failed' = IF f.success THEN failed
                           ELSE Append(failed, f.package)
              /\ notifications' = IF NotifyDue(completed + 1)
                                  THEN notifications + 1
                                  ELSE notifications
              /\ mainpc' = AfterIteration(
                              IF o = "none" THEN o ELSE send_notification(o),
                              completed + 1 = Len(Submitted(packages)))
    /\ UNCHANGED <<callVars, run, packages, queue, jobVars, cancelled, tkVars>>

\* A collection loop that keeps only the first failing package.
Collect_first_failure(o) ==
    /\ mainpc = "collecting"
    /\ completed < Len(Submitted(packages))
    /\ LET f == future[Submitted(packages)[completed + 1]]
       IN  /\ f.state = "result"
           /\ (o = "none") <=> ~NotifyDue(completed + 1)
           /\ completed' = completed + 1
           /\ reported' = Append(reported, f.package)
           /\ failed' = IF f.success \/ failed # <<>> THEN failed
                        ELSE Append(failed, f.package)
           /\ notifications' = IF NotifyDue(completed + 1)
                               THEN notifications + 1
                               ELSE notifications
           /\ mainpc' = AfterIteration(
                           IF o = "none" THEN o ELSE send_notification(o),
                           completed + 1 = Len(Submitted(packages)))
    /\ UNCHANGED <<callVars, run, packages, queue, jobVars, cancelled, tkVars>>

\* One iteration of `for future in futures` (lines 170-185): future.result()
\* of the next future in submission order returns, or re-raises what the job
\* raised; a None result fails to unpack. Every NotifyEvery-th iteration
\* ends with a send_notification call, to which the environment does o.
\* After the last iteration the with block is left and failed is returned
\* (line 187).
Collect(o) ==
    /\ mainpc = "collecting"
    /\ completed < Len(Submitted(packages))
    /\ LET f == future[Submitted(packages)[completed + 1]]
       IN  /\ f.state # "pending"
           /\ IF f.state # "result"
              THEN /\ o = "none"
                   /\ mainpc' = "unwinding"
                   /\ UNCHANGED <<completed, reported, failed, notifications>>
              ELSE /\ (o = "none") <=> ~NotifyDue(completed + 1)
                   /\ completed' = completed + 1
                   /\ reported' = Append(reported, f.package)
                   /\ failed' = IF f.success THEN failed
                                ELSE Append(failed, f.package)
                   /\ notifications' = IF NotifyDue(completed + 1)
                                       THEN notifications + 1
                                       ELSE notifications
                   /\ mainpc' = AfterIteration(
                                   IF o = "none" THEN o
                                   ELSE send_notification(o),
                                   completed + 1 = Len(Submitted(packages)))
    /\ UNCHANGED <<callVars, run, packages, queue, jobVars, cancelled, tkVars>>

\* The exception leaves the with block: ThreadPoolExecutor.__exit__ is
\* shutdown(wait=True), which returns once every submitted job has run; then
\* the exception leaves parallel_install.
Unwind ==
    /\ mainpc = "unwinding"
    /\ queue = <<>>
    /\ Running = {}
    /\ mainpc' = "raised"
    /\ UNCHANGED <<callVars, run, failed, packages, queue, jobVars, completed,
                   reported, notifications, cancelled, tkVars>>

\* Line 265 of main: the number printed as Success once parallel_install has
\* returned failed.
SuccessCount == Len(packages) - Len(failed)

\* The user interrupts a batch long enough to have queued jobs: the calling
\* thread gets KeyboardInterrupt in future.result() (line 171). Nothing in
\* parallel_install or main catches it: it leaves the with block as any
\* exception does.
Interrupt ==
    /\ scenario = "long"
    /\ mainpc = "collecting"
    /\ cancelled = <<>>
    /\ cancelled' = <<queue>>
    /\ mainpc' = "unwinding"
    /\ UNCHANGED <<callVars, run, failed, packages, queue, jobVars, completed,
                   reported, notifications, tkVars>>

\* The engine is run again on the same request set, the version oracle now
\* reporting every package installed at a satisfying version.
Rerun ==
    /\ prog = "pip"
    /\ run = 1
    /\ mainpc \in {"returned", "raised"}
    /\ \A p \in Pkgs : Satisfying(packages[p]) # {}
    /\ run' = 2
    /\ queue' = Submitted(packages)
    /\ pc' = [p \in Pkgs |-> "queued"]
    /\ installed' = [p \in Pkgs |-> NotInstalled]
    /\ attempt' = [p \in Pkgs |-> 0]
    /\ calls' = [p \in Pkgs |-> 0]
    /\ delays' = [p \in Pkgs |-> <<>>]
    /\ results' = [p \in Pkgs |-> <<>>]
    /\ final' = [p \in Pkgs |-> "none"]
    /\ future' = [p \in Pkgs |-> Pending]
    /\ overtaken' = <<>>
    /\ mainpc' = "collecting"
    /\ completed' = 0
    /\ reported' = <<>>
    /\ failed' = <<>>
    /\ notifications' = 0
    /\ cancelled' = <<>>
    /\ UNCHANGED <<callVars, packages, tkVars>>

\* ------------------------------------------------- install_packages

\* Lines 175-179: the dependencies are resolved and the request is
\* deduplicated by name; the set's iteration order is arbitrary. (The same
\* request has the same dependencies when the engine is run again.)
Resolve(deps, order) ==
    /\ tkpc = "resolve"
    /\ deps \in resolve_dependencies(requested)
    /\ run = 2 => deps = dependencies
    /\ order \in ListOfSet(requested \o deps)
    /\ dependencies' = deps
    /\ all_packages' = order
    /\ tkpc' = "loop"
    /\ UNCHANGED <<callVars, run, failed, packages, queue, jobVars, mainVars,
                   requested, success, outcome, pkgcalls>>

\* What check_installed may answer in this run.
CheckInstalledAnswers == IF run = 2 THEN {TRUE} ELSE BOOLEAN

\* One iteration of the for loop (lines 181-202) for the next name: it fails
\* validation, or check_installed answers isInstalled, or `pkg install` is
\* run and exits with exit ("ok", or "error" for CalledProcessError).
Iterate(isInstalled, exit) ==
    /\ tkpc = "loop"
    /\ Len(success) + Len(failed) < Len(all_packages)
    /\ isInstalled \in CheckInstalledAnswers
    /\ LET pkg == all_packages[Len(success) + Len(failed) + 1]
       IN  IF ~validate_package(pkg)
           THEN /\ failed' = Append(failed, pkg)
                /\ outcome' = [outcome EXCEPT ![pkg] = "invalid"]
                /\ UNCHANGED <<success, pkgcalls>>
           ELSE IF isInstalled
           THEN /\ success' = Append(success, pkg)
                /\ outcome' = [outcome EXCEPT ![pkg] = "already"]
                /\ UNCHANGED <<failed, pkgcalls>>
           ELSE /\ pkgcalls' = [pkgcalls EXCEPT ![pkg] = @ + 1]
                /\ IF exit = "ok"
                   THEN /\ success' = Append(success, pkg)
                        /\ outcome' = [outcome EXCEPT ![pkg] = "installed"]
                        /\ UNCHANGED failed
                   ELSE /\ failed' = Append(failed, pkg)
                        /\ outcome' = [outcome EXCEPT ![pkg] = "error"]
                        /\ UNCHANGED success
    /\ UNCHANGED <<callVars, run, packages, queue, jobVars, mainVars, requested,
                   dependencies, all_packages, tkpc>>

\* Line 204: the loop is over, success and failed are returned.
Return ==
    /\ tkpc = "loop"
    /\ Len(success) + Len(failed) = Len(all_packages)
    /\ tkpc' = "returned"
    /\ UNCHANGED <<callVars, run, failed, packages, queue, jobVars, mainVars,
                   requested, dependencies, all_packages, success, outcome,
                   pkgcalls>>

\* The user interrupts install_packages between two iterations: main's
\* handler prints "Operation cancelled" and exits the program (lines
\* 167-169); success and failed are dropped.
InterruptToolkit ==
    /\ tkpc = "loop"
    /\ tkpc' = "exited"
    /\ UNCHANGED <<callVars, run, failed, packages, queue, jobVars, mainVars,
                   requested, dependencies, all_packages, success, outcome,
                   pkgcalls>>

\* install_packages is called again with the same list of installable names,
\* check_installed now reporting every package installed.
RerunToolkit ==
    /\ prog = "pkg"
    /\ run = 1
    /\ tkpc = "returned"
    /\ \A n \in Range(all_packages) : validate_package(n)
    /\ run' = 2
    /\ tkpc' = "resolve"
    /\ all_packages' = <<>>
    /\ success' = <<>>
    /\ failed' = <<>>
    /\ outcome' = [n \in Names |-> "none"]
    /\ pkgcalls' = [n \in Names |-> 0]
    /\ UNCHANGED <<callVars, packages, queue, jobVars, mainVars, requested,
                   dependencies>>

Next ==
    \/ Edit
    \/ \E exit \in {"ok", "error"} : Uninstall(exit)
    \/ UninstallReturn
    \/ \E p \in Pkgs : StartJob(p)
    \/ \E p \in Pkgs : \E cv \in AllInstalled : VersionChecked(p, cv)
    \/ \E p \in Pkgs : PipShowHangs(p)
    \/ \E p \in Pkgs : \E r \in ExecutorResults : InstallReturns(p, r)
    \/ \E p \in Pkgs : BackoffDone(p)
    \/ \E o \in NotifyOutcomes \cup {"none"} : Collect(o)
    \/ Unwind
    \/ Interrupt
    \/ Rerun
    \/ \E deps \in resolve_dependencies(requested) :
          \E order \in ListOfSet(requested \o deps) : Resolve(deps, order)
    \/ \E isInstalled \in BOOLEAN : \E exit \in {"ok", "error"} :
          Iterate(isInstalled, exit)
    \/ Return
    \/ InterruptToolkit
    \/ RerunToolkit

Spec == Init /\ [][Next]_vars

\* ----------------------------------------------------------------- claims

NoDuplicates(seq) == \A i, j \in 1..Len(seq) : seq[i] = seq[j] => i = j

ExactlyOnce(seq, S) == Range(seq) = S /\ NoDuplicates(seq)

IndexOf(seq, x) == CHOOSE i \in 1..Len(seq) : seq[i] = x

StrictlyIncreasing(seq) == \A i, j \in 1..Len(seq) : i < j => seq[i] < seq[j]

VersionCheckDone(p) == pc[p] \in {"installing", "sleeping", "done"}

InFlight == {p \in Pkgs : pc[p] = "installing"}

FailedJob(p) == future[p].state = "result" /\ ~future[p].success

\* C1: when the batch returns, every package of the deduplicated request set
\* has exactly one recorded outcome: a status line of parallel_install, an
\* entry of success or failed of install_packages; none is dropped, none is
\* recorded twice.
C1_ExactlyOneOutcome ==
    /\ NoDuplicates(reported)
    /\ NoDuplicates(success \o failed)
    /\ (prog = "pip" /\ mainpc = "returned") => ExactlyOnce(reported, Pkgs)
    /\ (prog = "pkg" /\ tkpc = "returned") =>
          ExactlyOnce(success \o failed, Range(requested \o dependencies))

\* A batch of more packages than workers has returned, some of them failed.
C1_Witness ==
    /\ prog = "pip"
    /\ mainpc = "returned"
    /\ Len(packages) > MAX_WORKERS
    /\ failed # <<>>
    /\ Len(failed) < Len(packages)

\* C2 (as claimed): a package whose installed version satisfies its
\* constraint gets no install subprocess and the already-satisfied outcome.
C2_Original ==
    /\ \A p \in Pkgs :
          (VersionCheckDone(p) /\ installed[p] \in Satisfying(packages[p])) =>
              /\ calls[p] = 0
              /\ future[p] = Result(p, TRUE, "Already installed")
    /\ \A n \in Names : outcome[n] = "already" => pkgcalls[n] = 0

\* C3 (as claimed): when the first install subprocess of a package ends with
\* a terminal error, no second one is started.
C3_Original ==
    \A p \in Pkgs :
        (results[p] # <<>> /\ results[p][1] = "terminal") => calls[p] = 1

\* C4 (as claimed): a package whose install subprocesses all end with a
\* retryable error fails after exactly NETWORK_RETRIES + 1 of them, each
\* sleep between them longer than the one before.
C4_Original ==
    \A p \in Pkgs :
        ( /\ Traced
          /\ FailedJob(p)
          /\ Range(results[p]) \subseteq {"transient", "timeout"} ) =>
            /\ calls[p] = NETWORK_RETRIES + 1
            /\ StrictlyIncreasing(delays[p])

\* A package is dispatched to the executor when its version check did not
\* end the job.
Dispatched(p) ==
    \/ pc[p] \in {"installing", "sleeping"}
    \/ pc[p] = "done" /\ future[p].state = "result"
                      /\ future[p].message # "Already installed"

\* C5: a dispatched package has had at least one and at most
\* NETWORK_RETRIES + 1 install attempts, whatever the executor's results.
C5_AttemptsBounded ==
    \A p \in Pkgs :
        /\ calls[p] <= NETWORK_RETRIES + 1
        /\ Dispatched(p) => calls[p] >= 1

\* A package has failed after the last allowed attempt.
C5_Witness ==
    \E p \in Pkgs : FailedJob(p) /\ calls[p] = NETWORK_RETRIES + 1

\* C6: at most MAX_WORKERS install subprocesses are in flight at any time.
C6_ConcurrencyBound == Cardinality(InFlight) <= MAX_WORKERS

\* MAX_WORKERS install subprocesses are in flight and a job is still queued.
C6_Witness == Cardinality(InFlight) = MAX_WORKERS /\ queue # <<>>

\* C7 (as claimed): unless the user interrupts it, no exception leaves
\* parallel_install.
C7_Original == cancelled = <<>> => mainpc \notin {"unwinding", "raised"}

\* What the job of p must have produced, given only what the version oracle
\* answered for p and how the install subprocesses of p ended.
ExpectedFuture(p) ==
    LET check == VersionCheck(installed[p], packages[p])
    IN  CASE check = "already" -> Result(p, TRUE, "Already installed")
          [] check = "raise" -> Exception
          [] final[p] = "ok" -> Result(p, TRUE, "Success")
          [] final[p] = "timeout" -> Result(p, FALSE, "Timeout")
          [] OTHER -> Result(p, FALSE, Stderr(NETWORK_RETRIES + 1))

C9_Original ==
    run = 2 =>
        /\ \A p \in Pkgs :
              /\ calls[p] = 0
              /\ pc[p] = "done" => future[p] = Result(p, TRUE, "Already installed")
        /\ \A n \in Names :
              /\ pkgcalls[n] = 0
              /\ outcome[n] \in {"none", "already"}

\* C10 (as claimed): failed is in completion order: a failing package that
\* finished before an earlier-requested failing package precedes it.
C10_Original ==
    (prog = "pip" /\ mainpc = "returned" /\ overtaken # <<>>) =>
        IndexOf(failed, overtaken[1]) < IndexOf(failed, overtaken[2])

\* C10 (amended): failed is in request order, whatever the order in which
\* the failing packages finished.
C10_RequestOrder == prog = "pip" => StrictlyIncreasing(failed)

\* A batch has returned in which a failing package finished before a failing
\* package requested earlier.
C10_Witness == prog = "pip" /\ mainpc = "returned" /\ overtaken # <<>>

\* C11 (as claimed): a request without a constraint is satisfied by any
\* installed version: the job returns the already-satisfied outcome and no
\* install subprocess is started.
C11_Original ==
    \A p \in Pkgs :
        ( /\ VersionCheckDone(p)
          /\ packages[p] = SpecAny
          /\ installed[p] # NotInstalled ) =>
            /\ calls[p] = 0
            /\ future[p] = Result(p, TRUE, "Already installed")

\* The constraint or the installed version of p cannot be parsed.
Unparsable(p) ==
    /\ installed[p] # NotInstalled
    /\ \/ ~is_version(installed[p][1])
       \/ packages[p] # SpecAny
            /\ ~is_version(lstrip(packages[p], {">", "="}))

\* C12 (as claimed): when the constraint or the installed version cannot be
\* parsed, the version check answers "not satisfied": no exception is
\* raised and the package goes on to its first install subprocess.
C12_Original ==
    \A p \in Pkgs :
        (VersionCheckDone(p) /\ Unparsable(p)) =>
            /\ future[p] # Exception
            /\ calls[p] >= 1

\* C13 (as claimed): a name that fails the charset rule takes no worker and
\* gets no install command, in parallel_install and in install_packages.
C13_Original ==
    /\ \A p \in Pkgs :
          ~validate_package(names[p]) => (p \notin Running /\ calls[p] = 0)
    /\ \A n \in Names :
          ~validate_package(n) =>
              (pkgcalls[n] = 0 /\ outcome[n] \in {"none", "invalid"})

\* C14 (as claimed): every external call of a batch has a timeout, so no
\* thread of the batch stays in a call whose process never exits.
C14_Original ==
    /\ \A p \in Pkgs : pc[p] # "blocked"
    /\ mainpc # "blocked"

\* The failing packages, in the order of the futures list.
FailedJobs == SelectSeq(Submitted(packages), LAMBDA p : FailedJob(p))

\* C15 (as claimed): whatever happens to a notification, parallel_install
\* ends as it would with a working notification sink: an exception that
\* leaves it (without an interrupt) is the one of the job it was waiting
\* for, and when it returns, failed lists the failing packages.
C15_Original ==
    prog = "pip" =>
        /\ (cancelled = <<>> /\ mainpc \in {"unwinding", "raised"}) =>
              /\ completed < Len(packages)
              /\ future[Submitted(packages)[completed + 1]].state
                    \in {"exception", "none"}
        /\ mainpc = "returned" => failed = FailedJobs

\* C16 (as claimed): after an interrupt no queued job is started any more,
\* and the batch ends by returning its partial result: parallel_install
\* does not end with the exception, install_packages does not end with the
\* program's exit.
C16_Original ==
    /\ cancelled # <<>> => (queue = cancelled[1] /\ mainpc # "raised")
    /\ tkpc # "exited"

\* The name and the constraint an entry of the edit stands for.
EntryName(e) == IF FindGe(e) # {} THEN strip(split(e)[1]) ELSE strip(e)

EntrySpec(e) ==
    IF FindGe(e) # {} THEN <<">", "=">> \o strip(split(e)[2]) ELSE SpecAny

\* The entries processed so far that name n.
Occurrences(n) ==
    {i \in 1..edited : EntryName(custom_packages[i]) = n}

\* C17 (as claimed): when a name was typed both with and without a
\* constraint, in either order, the dict has the name with a constraint.
C17_Original ==
    (scenario = "edit" /\ edited = Len(custom_packages)) =>
        \A i, j \in 1..edited :
            LET e == custom_packages[i]
                f == custom_packages[j]
            IN  ( /\ EntryName(e) = EntryName(f)
                  /\ EntrySpec(e) # SpecAny
                  /\ EntrySpec(f) = SpecAny ) =>
                    config[EntryName(e)] # SpecAny

\* C17 (amended): the dict has one entry per typed name, carrying the
\* constraint of the last entry typed for that name: last wins.
C17_LastWins ==
    scenario = "edit" =>
        \A i \in 1..edited :
            LET n == EntryName(custom_packages[i])
                last == CHOOSE k \in Occurrences(n) :
                            \A l \in Occurrences(n) : l <= k
            IN  /\ n \in DOMAIN config
                /\ config[n] = EntrySpec(custom_packages[last])

\* A name was typed with a constraint and then without one, and the dict
\* has it without.
C17_Witness ==
    /\ scenario = "edit"
    /\ edited = 2
    /\ EntryName(custom_packages[1]) = EntryName(custom_packages[2])
    /\ EntrySpec(custom_packages[1]) # SpecAny
    /\ EntrySpec(custom_packages[2]) = SpecAny
    /\ config[EntryName(custom_packages[2])] = SpecAny

\* The state of package p in the state machine; "Died" is the state of a
\* package whose job ended without an outcome.
PkgState(p) ==
    CASE pc[p] \in {"queued", "checking", "blocked"} -> "Pending"
      [] pc[p] \in {"installing", "sleeping"} -> "Running"
      [] future[p].state # "result" -> "Died"
      [] future[p].message = "Already installed" -> "Skipped"
      [] future[p].success -> "Succeeded"
      [] OTHER -> "Failed"

\* The state of name n of install_packages, whose loop decides a name in
\* one iteration.
NameState(n) ==
    CASE outcome[n] = "none" -> "Pending"
      [] outcome[n] = "already" -> "Skipped"
      [] outcome[n] = "installed" -> "Succeeded"
      [] OTHER -> "Failed"

Transitions ==
    {<<"Pending", "Skipped">>, <<"Pending", "Running">>,
     <<"Running", "Succeeded">>, <<"Running", "Failed">>}

\* C18 (as claimed): within a run, a package changes state only along
\* Pending -> Skipped, Pending -> Running, Running -> Succeeded and
\* Running -> Failed. For a name of install_packages: it leaves Pending
\* once; it is Skipped only without an install command, Succeeded only
\* after one, and Failed after one or for failing validation.
C18_Original ==
    [][run' = run =>
        /\ \A p \in Pkgs :
              \/ PkgState(p)' = PkgState(p)
              \/ <<PkgState(p), PkgState(p)'>> \in Transitions
        /\ \A n \in Names :
              /\ NameState(n) # "Pending" => NameState(n)' = NameState(n)
              /\ NameState(n)' = "Skipped" => pkgcalls'[n] = 0
              /\ NameState(n)' = "Succeeded" => pkgcalls'[n] = 1
              /\ NameState(n)' = "Failed" =>
                    (pkgcalls'[n] = 1 \/ ~validate_package(n))]_vars

\* C19 (as claimed): a job that has ended has given its package a terminal
\* outcome, and parallel_install returns only when every job has.
C19_Original ==
    prog = "pip" =>
        /\ \A p \in Pkgs : pc[p] = "done" => future[p].state = "result"
        /\ mainpc = "returned" =>
              \A p \in Pkgs : PkgState(p) \in {"Skipped", "Succeeded", "Failed"}

C21_LastFailure ==
    \A p \in Pkgs :
        FailedJob(p) =>
            /\ calls[p] = NETWORK_RETRIES + 1
            /\ future[p].message = "Timeout" <=> final[p] = "timeout"
            /\ final[p] # "timeout" => future[p].message = Stderr(calls[p])
            /\ Traced => /\ Len(results[p]) = calls[p]
                         /\ results[p][calls[p]] = final[p]

\* A package whose first attempt timed out has failed on the nonzero exit
\* of its last attempt.
C21_Witness ==
    \E p \in Pkgs :
        /\ Traced
        /\ FailedJob(p)
        /\ results[p][1] = "timeout"
        /\ future[p].message = Stderr(NETWORK_RETRIES + 1)

\* C22: the returned result partitions the batch. When parallel_install has
\* returned, failed holds each failing package once and no other, every
\* other package is installed or already satisfied, and main counts exactly
\* those as successes. When install_packages has returned, success and
\* failed are disjoint, cover the names of the list, and failed holds
\* exactly the names that failed validation or whose install failed.
C22_Partition ==
    /\ (prog = "pip" /\ mainpc = "returned") =>
          /\ NoDuplicates(failed)
          /\ Range(failed) = {p \in Pkgs : FailedJob(p)}
          /\ \A p \in Pkgs \ Range(failed) :
                future[p].state = "result" /\ future[p].success
          /\ SuccessCount =
                Cardinality({p \in Pkgs : future[p].state = "result"
                                          /\ future[p].success})
    /\ (prog = "pkg" /\ tkpc = "returned") =>
          /\ Range(success) \cap Range(failed) = {}
          /\ Range(success) \cup Range(failed) = Range(all_packages)
          /\ Range(failed) =
                {n \in Names : outcome[n] \in {"invalid", "error"}}
          /\ Range(success) =
                {n \in Names : outcome[n] \in {"already", "installed"}}

\* parallel_install has returned from a batch with two failing packages, an
\* installed one and one that was already satisfied.
C22_Witness ==
    /\ prog = "pip"
    /\ mainpc = "returned"
    /\ Len(failed) = 2
    /\ \E p, q \in Pkgs :
          /\ future[p] = Result(p, TRUE, "Success")
          /\ future[q] = Result(q, TRUE, "Already installed")

\* The packages of the uninstall subprocesses that exited nonzero, in order.
UninstallFailures ==
    LET bad == SelectSeq(uninstalled, LAMBDA u : u[2] = "error")
    IN  [i \in 1..Len(bad) |-> bad[i][1]]

\* C23: uninstall_packages runs one uninstall per entry of its list, in the
\* order of the list, whatever is installed; failed holds
\* exactly the packages whose uninstall exited nonzero, and the function
\* returns only when every entry has had its uninstall, whatever failed.
C23_Removal ==
    scenario = "uninstall" =>
        /\ Len(uninstalled) <= Len(removing)
        /\ \A i \in 1..Len(uninstalled) : uninstalled[i][1] = removing[i]
        /\ uninstall_failed = UninstallFailures
        /\ unpc = "returned" => Len(uninstalled) = Len(removing)

\* uninstall_packages has returned from a list whose first uninstall failed
\* and whose last one succeeded.
C23_Witness ==
    /\ scenario = "uninstall"
    /\ unpc = "returned"
    /\ Len(removing) = MaxRemove
    /\ uninstalled[1][2] = "error"
    /\ uninstalled[MaxRemove][2] = "ok"
    /\ uninstall_failed = <<removing[1]>>

\* parallel_install is over without having been interrupted.
BatchOver == mainpc \in {"returned", "raised"} /\ cancelled = <<>>

\* C24 (as claimed): the progress counter counts the status lines, a
\* notification has been sent for every multiple of NotifyEvery it has
\* reached, and a batch that is over has counted all its packages and sent
\* a notification for every NotifyEvery of them.
C24_Original ==
    prog = "pip" =>
        /\ completed = Len(reported)
        /\ notifications = completed \div NotifyEvery
        /\ BatchOver =>
              /\ completed = Len(packages)
              /\ notifications = Len(packages) \div NotifyEvery

\* C25: a job that entered the retry loop ends with an outcome tuple, never
\* by falling out of the loop; it ends at its first successful attempt or
\* at the failure of attempt NETWORK_RETRIES + 1, and by then it has slept
\* once less than it has started install subprocesses: nothing follows a
\* success or the last failure.
C25_NothingAfterTheEnd ==
    \A p \in Pkgs :
        /\ future[p] # ReturnedNone
        /\ (pc[p] = "done" /\ calls[p] >= 1) =>
              /\ future[p].state = "result"
              /\ future[p].success \/ calls[p] = NETWORK_RETRIES + 1
              /\ future[p].success <=> final[p] = "ok"
        /\ Traced =>
              /\ \A n \in 1..(Len(results[p]) - 1) : results[p][n] # "ok"
              /\ Len(results[p]) <= NETWORK_RETRIES + 1
              /\ (pc[p] = "done" /\ calls[p] >= 1) =>
                    /\ Len(results[p]) = calls[p]
                    /\ Len(delays[p]) = calls[p] - 1

\* A package was installed by its last allowed attempt, after two sleeps.
C25_Witness ==
    \E p \in Pkgs :
        /\ Traced
        /\ future[p] = Result(p, TRUE, "Success")
        /\ calls[p] = NETWORK_RETRIES + 1
        /\ Len(delays[p]) = NETWORK_RETRIES

====
